---- MODULE Spec2Model ----
(***************************************************************************)
(* thread_dispatcher (src/src/tbb/thread_dispatcher.h): the registry of    *)
(* thread_dispatcher_client objects in three priority buckets, guarded by  *)
(* a reader-writer mutex, the cursor my_next_client, the ABA epoch         *)
(* counter, and the worker loop that binds workers to clients.             *)
(***************************************************************************)
EXTENDS Integers, Sequences, FiniteSets, TLC

\* ---------------------------------------------------------------- bounds
MaxDemand == 1      \* largest pending demand of a client while workers run
SeqDemand == 2      \* largest pending demand of a client in the direct-call runs
MaxClients == 3     \* create_client calls in one run
MaxCalls == 4       \* direct client_in_need calls recorded in one run
MaxAdjust == 3      \* adjust_job_count_estimate calls in one run

\* ------------------------------------------------------------- constants
num_priority_levels == 3
NULL == 0

\* The storage addresses the allocator hands out, and the worker threads.
Addr == {1, 2, 3}
Workers == {1, 2}
Levels == 0..(num_priority_levels - 1)
Ptr == Addr \cup {NULL}

\* The arguments adjust_job_count_estimate is called with.
Deltas == {-1, 0, 1}

VARIABLES
    live,                  \* live[a]: a thread_dispatcher_client object exists at address a
    obj,                   \* obj[a]: its fields priority_level, aba_epoch, references, demand
    my_client_list,        \* my_client_list[idx]: the intrusive list of bucket idx, front first
    my_next_client,        \* the cursor
    my_clients_aba_epoch,  \* the epoch counter
    writer,                \* my_list_mutex is held by the writer
    readers,               \* the workers holding my_list_mutex as readers
    upc, uclient, uepoch, upriority, ures,   \* the controller thread: position, arguments, result
    wpc, my_last_client, client, pass,       \* each worker: position in process, td.my_last_client, locals
    hint, it, curr_priority_level,           \* each worker: locals of client_in_need's walk
    visited,               \* each worker: the clients try_join was called on in the current call
    usedDead,              \* some thread dereferenced an address that holds no object
    owed,                  \* owed[a]: demand given to the client at a minus client_in_need calls that returned it
    retired,               \* <<address, epoch>> of every destroyed client
    snap,                  \* the registry as it was when the controller took the write lock
    quiet,                 \* the registry and the demands are frozen (direct-call runs)
    demand0,               \* demand0[a]: the demand of the client at a when they were frozen
    my_server,             \* the deltas the resource manager's adjust_job_count_estimate was called with
    deltas,                \* the deltas the dispatcher's adjust_job_count_estimate was called with
    calls                  \* the direct client_in_need calls made since then: argument, result, clients tried

vars == << live, obj, my_client_list, my_next_client, my_clients_aba_epoch, writer, readers,
           upc, uclient, uepoch, upriority, ures,
           wpc, my_last_client, client, pass, hint, it, curr_priority_level, visited,
           usedDead, owed, retired, snap, quiet, demand0, my_server, deltas, calls >>

registryVars == << my_client_list, my_next_client, my_clients_aba_epoch >>
ctlVars == << upc, uclient, uepoch, upriority, ures, snap >>
walkVars == << hint, it, curr_priority_level, visited >>
workerVars == << wpc, my_last_client, client, pass, hint, it, curr_priority_level, visited >>

\* The storage of an address that holds no object.
FreeObj == [prio |-> 0, epoch |-> 0, refs |-> 0, demand |-> 0]
NoSnap == [lists |-> <<>>, next |-> NULL, epoch |-> 0, live |-> {}, zero |-> FALSE]

\* ------------------------------------------------------- list primitives
Range(s) == {s[i] : i \in 1..Len(s)}

IndexOf(s, a) == IF a \in Range(s) THEN CHOOSE i \in 1..Len(s) : s[i] = a ELSE 0

\* push_back in the place of push_front.
PushBack(s, a) == s \o <<a>>

\* intrusive_list::push_front
PushFront(s, a) == <<a>> \o s

\* intrusive_list::remove
RECURSIVE Remove(_, _)
Remove(s, a) ==
    IF s = <<>> THEN <<>>
    ELSE IF Head(s) = a THEN Tail(s)
    ELSE <<Head(s)>> \o Remove(Tail(s), a)

\* ----------------------------------------------------- select_next_client
\* The loop of lines 58-62 with idx <= level for its condition.
RECURSIVE SelectScanInclusive(_, _, _, _)
SelectScanInclusive(lists, h, level, idx) ==
    IF idx <= level /\ idx < num_priority_levels
    THEN IF lists[idx] # <<>> THEN Head(lists[idx])
         ELSE SelectScanInclusive(lists, h, level, idx + 1)
    ELSE h

\* The loop of lines 58-62 with idx starting from 1.
RECURSIVE SelectScanSkipsTop(_, _, _, _)
SelectScanSkipsTop(lists, h, level, idx) ==
    IF idx = 0 THEN SelectScanSkipsTop(lists, h, level, 1)
    ELSE IF idx < level
    THEN IF lists[idx] # <<>> THEN Head(lists[idx])
         ELSE SelectScanSkipsTop(lists, h, level, idx + 1)
    ELSE h

\* The loop of lines 58-62: idx runs from 0 while idx < level.
RECURSIVE SelectScan(_, _, _, _)
SelectScan(lists, h, level, idx) ==
    IF idx < level
    THEN IF lists[idx] # <<>> THEN Head(lists[idx])
         ELSE SelectScan(lists, h, level, idx + 1)
    ELSE h

\* select_next_client returning a non-null hint without looking at the buckets.
SelectKeepsHint(lists, h, p) ==
    IF h # NULL THEN h ELSE SelectScan(lists, h, num_priority_levels, 0)

\* p is the value hint->priority_level() yields (read only when h is non-null).
select_next_client(lists, h, p) ==
    SelectScan(lists, h, IF h # NULL THEN p ELSE num_priority_levels, 0)

\* What reading priority_level() through pointer a can yield: the field of the
\* object, or anything when the storage holds no object.
ReadPrio(a) == IF a = NULL THEN {0} ELSE IF live[a] THEN {obj[a].prio} ELSE Levels

\* The same for get_aba_epoch().
ReadEpoch(a) == IF live[a] THEN {obj[a].epoch} ELSE 0..MaxClients

\* Whether dereferencing pointer a touches storage that holds no object.
Dangling(a) == a # NULL /\ ~live[a]

\* ------------------------------------------------------- is_client_alive
RECURSIVE is_client_in_list(_, _)
is_client_in_list(clients, c) ==
    IF clients = <<>> THEN FALSE
    ELSE IF Head(clients) = c THEN TRUE
    ELSE is_client_in_list(Tail(clients), c)

\* The loop of line 150 stopping one level early.
RECURSIVE AliveScanShort(_, _, _)
AliveScanShort(lists, c, idx) ==
    IF idx < num_priority_levels - 1
    THEN IF is_client_in_list(lists[idx], c) THEN TRUE
         ELSE AliveScanShort(lists, c, idx + 1)
    ELSE FALSE

RECURSIVE AliveScan(_, _, _)
AliveScan(lists, c, idx) ==
    IF idx < num_priority_levels
    THEN IF is_client_in_list(lists[idx], c) THEN TRUE
         ELSE AliveScan(lists, c, idx + 1)
    ELSE FALSE

\* is_client_alive without the search of the buckets (lines 150-154).
AliveIfNonNull(lists, c) == c # NULL

is_client_alive(lists, c) == IF c = NULL THEN FALSE ELSE AliveScan(lists, c, 0)

\* ------------------------------------------- insert_client, remove_client
\* insert_client linking the client into bucket 0 whatever its priority level.
InsertAtLevelZero(lists, next, c, p, pn) ==
    LET l2 == [lists EXCEPT ![0] = PushFront(@, c)]
    IN  [lists |-> l2, next |-> select_next_client(l2, next, pn)]

\* The registry after insert_client(c): [lists, next].
insert_client(lists, next, c, p, pn) ==
    LET l2 == [lists EXCEPT ![p] = PushFront(@, c)]
    IN  [lists |-> l2, next |-> select_next_client(l2, next, pn)]

\* remove_client without lines 128-130: the cursor is not reset when it is c.
RemoveKeepsCursor(lists, next, c, p, pn) ==
    LET l2 == [lists EXCEPT ![p] = Remove(@, c)]
    IN  [lists |-> l2, next |-> select_next_client(l2, next, pn)]

\* The registry after remove_client(c).
remove_client(lists, next, c, p, pn) ==
    LET l2 == [lists EXCEPT ![p] = Remove(@, c)]
        n1 == IF next = c THEN NULL ELSE next
    IN  [lists |-> l2, next |-> select_next_client(l2, n1, pn)]

\* ------------------------------------------------------------ the mutex
WriteLockFree == ~writer /\ readers = {}
ReadLockFree == ~writer

\* ------------------------------------------- the client object (clients.h)
\* try_join: reserves one worker slot iff the client has pending demand; the
\* slot taken is a reference the worker holds until its process call returns.
try_join_ok(a) == IF live[a] THEN {obj[a].demand > 0} ELSE BOOLEAN

try_join(a, ok) ==
    IF ok /\ live[a]
    THEN [obj EXCEPT ![a].demand = @ - 1, ![a].refs = @ + 1]
    ELSE obj

\* The workers bound to the client at a: between a successful try_join and the
\* return of client->process.
HeldBy(a) == Cardinality({w \in Workers : wpc[w] \in {"got", "proc"} /\ client[w] = a})

Linked(a) == \E idx \in Levels : a \in Range(my_client_list[idx])

\* The create_client calls made so far: every client made is live or destroyed.
Created == Cardinality({a \in Addr : live[a]}) + Cardinality(retired)

\* ----------------------------------------------------------------- Init
Init ==
    /\ live = [a \in Addr |-> FALSE]
    /\ obj = [a \in Addr |-> FreeObj]
    /\ my_client_list = [idx \in Levels |-> <<>>]
    /\ my_next_client = NULL
    /\ my_clients_aba_epoch = 0
    /\ writer = FALSE
    /\ readers = {}
    /\ upc = "idle" /\ uclient = NULL /\ uepoch = 0 /\ upriority = 0 /\ ures = FALSE
    /\ wpc = [w \in Workers |-> "done"]
    /\ my_last_client = [w \in Workers |-> NULL]
    /\ client = [w \in Workers |-> NULL]
    /\ pass = [w \in Workers |-> 0]
    /\ hint = [w \in Workers |-> NULL]
    /\ it = [w \in Workers |-> NULL]
    /\ curr_priority_level = [w \in Workers |-> 0]
    /\ visited = [w \in Workers |-> <<>>]
    /\ usedDead = FALSE
    /\ owed = [a \in Addr |-> 0]
    /\ retired = {}
    /\ snap = NoSnap
    /\ quiet = FALSE
    /\ demand0 = [a \in Addr |-> 0]
    /\ my_server = <<>>
    /\ deltas = <<>>
    /\ calls = <<>>

\* ------------------------------------------------------------ controller
\* create_client: a new object at a free address, stamped with the epoch counter.
\* p, r, d: the arena's priority level, references and demand at construction.
create_client(a, p, r, d) ==
    /\ upc = "idle" /\ ~quiet
    /\ ~live[a]
    /\ Created < MaxClients
    /\ live' = [live EXCEPT ![a] = TRUE]
    /\ obj' = [obj EXCEPT ![a] = [prio |-> p, epoch |-> my_clients_aba_epoch,
                                  refs |-> r, demand |-> d]]
    /\ owed' = [owed EXCEPT ![a] = d]
    /\ UNCHANGED << registryVars, writer, readers, ctlVars, workerVars,
                    usedDead, retired, quiet, demand0, my_server, deltas, calls >>

\* register_client, line 72: the scoped lock is taken.
RegLock(a) ==
    /\ upc = "idle" /\ ~quiet
    /\ live[a] /\ ~Linked(a)
    /\ WriteLockFree
    /\ writer' = TRUE
    /\ upc' = "r_insert"
    /\ uclient' = a
    /\ UNCHANGED << live, obj, registryVars, readers, uepoch, upriority, ures, snap,
                    workerVars, usedDead, owed, retired, quiet, demand0, my_server, deltas, calls >>

\* register_client, lines 73-74: insert_client, then the lock's destructor.
RegInsert ==
    /\ upc = "r_insert"
    /\ \E p \in ReadPrio(uclient), pn \in ReadPrio(my_next_client) :
         LET r == insert_client(my_client_list, my_next_client, uclient, p, pn)
         IN  /\ my_client_list' = r.lists
             /\ my_next_client' = r.next
    /\ usedDead' = (usedDead \/ Dangling(uclient) \/ Dangling(my_next_client))
    /\ writer' = FALSE
    /\ upc' = "idle"
    /\ uclient' = NULL
    /\ UNCHANGED << live, obj, my_clients_aba_epoch, readers, uepoch, upriority, ures, snap,
                    workerVars, owed, retired, quiet, demand0, my_server, deltas, calls >>

\* try_unregister_client, line 80: my_list_mutex.lock().
UnregLock(a, e, p) ==
    /\ upc = "idle" /\ ~quiet
    /\ WriteLockFree
    /\ writer' = TRUE
    /\ upc' = "u_find"
    /\ uclient' = a /\ uepoch' = e /\ upriority' = p
    /\ snap' = [lists |-> my_client_list, next |-> my_next_client,
                epoch |-> my_clients_aba_epoch, live |-> {b \in Addr : live[b]},
                zero |-> (live[a] /\ obj[a].refs = 0 /\ obj[a].demand = 0)]
    /\ UNCHANGED << live, obj, registryVars, readers, ures,
                    workerVars, usedDead, owed, retired, quiet, demand0, my_server, deltas, calls >>

\* The failure exit without the unlock of line 112.
UnregFailNoUnlock ==
    /\ writer' = writer
    /\ ures' = FALSE
    /\ upc' = "u_ret"

\* The failure exit, lines 112-113.
UnregFail ==
    /\ writer' = FALSE
    /\ ures' = FALSE
    /\ upc' = "u_ret"

\* The epoch comparison of line 84 left out.
UnregFindHitNoEpoch(found, e) == found

\* Lines 81-84: the search of bucket priority and the epoch comparison.
UnregFindHit(found, e) == found /\ e = uepoch

UnregFind ==
    /\ upc = "u_find"
    /\ \E e \in ReadEpoch(uclient) :
         IF UnregFindHit(is_client_in_list(my_client_list[upriority], uclient), e)
         THEN upc' = "u_refs" /\ UNCHANGED << writer, ures >>
         ELSE UnregFail
    /\ usedDead' = (usedDead \/ (is_client_in_list(my_client_list[upriority], uclient)
                                   /\ Dangling(uclient)))
    /\ UNCHANGED << live, obj, registryVars, readers, uclient, uepoch, upriority, snap,
                    workerVars, owed, retired, quiet, demand0, my_server, deltas, calls >>

\* Line 90 without its first operand: the references are not looked at.
UnregRefsSkipped ==
    /\ upc = "u_refs"
    /\ upc' = "u_demand"
    /\ UNCHANGED << writer, ures >>
    /\ UNCHANGED << live, obj, registryVars, readers, uclient, uepoch, upriority, snap,
                    workerVars, usedDead, owed, retired, quiet, demand0, my_server, deltas, calls >>

\* Line 90, first operand: client->references().
UnregRefs ==
    /\ upc = "u_refs"
    /\ IF obj[uclient].refs = 0
       THEN upc' = "u_demand" /\ UNCHANGED << writer, ures >>
       ELSE UnregFail
    /\ UNCHANGED << live, obj, registryVars, readers, uclient, uepoch, upriority, snap,
                    workerVars, usedDead, owed, retired, quiet, demand0, my_server, deltas, calls >>

\* Line 90, second operand, and lines 98-101 without the increment of line 99.
UnregDemandNoEpoch ==
    /\ upc = "u_demand"
    /\ IF obj[uclient].demand = 0
       THEN /\ \E p \in ReadPrio(uclient),
                  pn \in ReadPrio(IF my_next_client = uclient THEN NULL ELSE my_next_client) :
                 LET r == remove_client(my_client_list, my_next_client, uclient, p, pn)
                 IN  /\ my_client_list' = r.lists
                     /\ my_next_client' = r.next
            /\ my_clients_aba_epoch' = my_clients_aba_epoch
            /\ writer' = FALSE
            /\ upc' = "u_destroy"
            /\ UNCHANGED ures
       ELSE UnregFail /\ UNCHANGED registryVars
    /\ UNCHANGED << live, obj, readers, uclient, uepoch, upriority, snap,
                    workerVars, usedDead, owed, retired, quiet, demand0, my_server, deltas, calls >>

\* Line 90, second operand, and lines 98-101: remove_client, ++epoch, unlock.
UnregDemand ==
    /\ upc = "u_demand"
    /\ IF obj[uclient].demand = 0
       THEN /\ \E p \in ReadPrio(uclient),
                  pn \in ReadPrio(IF my_next_client = uclient THEN NULL ELSE my_next_client) :
                 LET r == remove_client(my_client_list, my_next_client, uclient, p, pn)
                 IN  /\ my_client_list' = r.lists
                     /\ my_next_client' = r.next
            /\ my_clients_aba_epoch' = my_clients_aba_epoch + 1
            /\ writer' = FALSE
            /\ upc' = "u_destroy"
            /\ UNCHANGED ures
       ELSE UnregFail /\ UNCHANGED registryVars
    /\ UNCHANGED << live, obj, readers, uclient, uepoch, upriority, snap,
                    workerVars, usedDead, owed, retired, quiet, demand0, my_server, deltas, calls >>

\* Lines 103-106: the destructor, the deallocation, return true.
UnregDestroy ==
    /\ upc = "u_destroy"
    /\ live' = [live EXCEPT ![uclient] = FALSE]
    /\ obj' = [obj EXCEPT ![uclient] = FreeObj]
    /\ owed' = [owed EXCEPT ![uclient] = 0]
    /\ retired' = retired \cup {<<uclient, obj[uclient].epoch>>}
    /\ ures' = TRUE
    /\ upc' = "u_ret"
    /\ UNCHANGED << registryVars, writer, readers, uclient, uepoch, upriority, snap,
                    workerVars, usedDead, quiet, demand0, my_server, deltas, calls >>

\* The caller has the result.
UnregReturn ==
    /\ upc = "u_ret"
    /\ upc' = "idle"
    /\ uclient' = NULL /\ uepoch' = 0 /\ upriority' = 0 /\ ures' = FALSE
    /\ snap' = NoSnap
    /\ UNCHANGED << live, obj, registryVars, writer, readers,
                    workerVars, usedDead, owed, retired, quiet, demand0, my_server, deltas, calls >>

\* ------------------------------------------------- the clients' owners
\* An external holder drops its reference (the arena's owner leaves).
ReleaseRef(a) ==
    /\ ~quiet
    /\ live[a]
    /\ obj[a].refs > HeldBy(a)
    /\ obj' = [obj EXCEPT ![a].refs = @ - 1]
    /\ UNCHANGED << live, registryVars, writer, readers, ctlVars, workerVars,
                    usedDead, owed, retired, quiet, demand0, my_server, deltas, calls >>

\* A thread that holds a reference raises the client's demand by one.
AdjustDemand(a) ==
    /\ ~quiet
    /\ live[a]
    /\ obj[a].refs > 0
    /\ obj[a].demand < MaxDemand
    /\ obj' = [obj EXCEPT ![a].demand = @ + 1]
    /\ owed' = [owed EXCEPT ![a] = @ + 1]
    /\ UNCHANGED << live, registryVars, writer, readers, ctlVars, workerVars,
                    usedDead, retired, quiet, demand0, my_server, deltas, calls >>

\* ------------------------------------------- adjust_job_count_estimate
\* Lines 212-214 without the test of delta.
ForwardAlways(server, delta) == Append(server, delta)

\* Lines 212-214: the call to my_server is made for a non-zero delta only.
ForwardDelta(server, delta) == IF delta # 0 THEN Append(server, delta) ELSE server

adjust_job_count_estimate(delta) ==
    /\ Len(deltas) < MaxAdjust
    /\ deltas' = Append(deltas, delta)
    /\ my_server' = ForwardDelta(my_server, delta)
    /\ UNCHANGED << live, obj, registryVars, writer, readers, ctlVars, workerVars,
                    usedDead, owed, retired, quiet, demand0, calls >>

\* -------------------------------------------------------- client_in_need
\* Lines 186-189 without is_client_alive: a non-null prev is used as it is.
CinStartUnchecked(lists, next, prev) == IF prev # NULL THEN prev ELSE next

\* Lines 186-189 without prev: every scan starts from the cursor.
CinStartCursor(lists, next, prev) == next

\* Lines 186-189: the client the scan is asked to start from.
CinStart(lists, next, prev) == IF is_client_alive(lists, prev) THEN prev ELSE next

\* Lines 171-173 with the level advanced by two in each round.
RECURSIVE SkipEmptyStride2(_, _, _)
SkipEmptyStride2(lists, cur, n) ==
    LET nxt == (cur + 2) % num_priority_levels
    IN  IF n = num_priority_levels THEN -1
        ELSE IF lists[nxt] = <<>> THEN SkipEmptyStride2(lists, nxt, n + 1)
        ELSE nxt

\* Lines 171-173: the do-while that skips empty buckets; n counts its rounds.
\* -1: the loop has gone through every level and found them all empty, so it never ends.
RECURSIVE SkipEmpty(_, _, _)
SkipEmpty(lists, cur, n) ==
    LET nxt == (cur + 1) % num_priority_levels
    IN  IF n = num_priority_levels THEN -1
        ELSE IF lists[nxt] = <<>> THEN SkipEmpty(lists, nxt, n + 1)
        ELSE nxt

\* Lines 170-175 going back to the front of the same bucket at the bucket's end.
AdvanceItSameBucket(lists, i, cur) ==
    LET s == lists[cur]
        k == IndexOf(s, i)
    IN  IF k # 0 /\ k < Len(s)
        THEN [it |-> s[k + 1], curr |-> cur]
        ELSE [it |-> Head(s), curr |-> cur]

\* Lines 170-175: ++it, and the move to the next non-empty bucket at a bucket's end.
AdvanceIt(lists, i, cur) ==
    LET s == lists[cur]
        k == IndexOf(s, i)
    IN  IF k # 0 /\ k < Len(s)
        THEN [it |-> s[k + 1], curr |-> cur]
        ELSE LET n == SkipEmpty(lists, cur, 0)
             IN  IF n = -1 THEN [it |-> NULL, curr |-> -1]
                 ELSE [it |-> Head(lists[n]), curr |-> n]

\* Line 177 returning the client the incremented iterator points to.
WalkResultNext(t, nxt) == nxt

\* Line 177: the client a successful iteration returns; t is the client try_join
\* was called on, nxt the iterator after the increment.
WalkResult(t, nxt) == t

\* Leaving client_in_need without the scoped lock's destructor.
CinLeaveKeepsLock(w, res) ==
    /\ client' = [client EXCEPT ![w] = res]
    /\ readers' = readers \cup {w}
    /\ hint' = [hint EXCEPT ![w] = NULL]
    /\ it' = [it EXCEPT ![w] = NULL]
    /\ curr_priority_level' = [curr_priority_level EXCEPT ![w] = 0]
    /\ wpc' = [wpc EXCEPT ![w] = IF res = NULL THEN "none" ELSE "got"]

\* Leaving client_in_need: the scoped lock is released, the locals die.
CinLeave(w, res) ==
    /\ client' = [client EXCEPT ![w] = res]
    /\ readers' = readers \ {w}
    /\ hint' = [hint EXCEPT ![w] = NULL]
    /\ it' = [it EXCEPT ![w] = NULL]
    /\ curr_priority_level' = [curr_priority_level EXCEPT ![w] = 0]
    /\ wpc' = [wpc EXCEPT ![w] = IF res = NULL THEN "none" ELSE "got"]

\* Lines 185-189 and 160-167: the read lock, is_client_alive, select_next_client, the start of the walk.
CinEnter(w) ==
    /\ wpc[w] = "cin"
    /\ ReadLockFree
    /\ LET start == CinStart(my_client_list, my_next_client, client[w])
       IN  \E p \in ReadPrio(start) :
             LET h == select_next_client(my_client_list, start, p)
             IN  /\ usedDead' = (usedDead \/ Dangling(start) \/ Dangling(h))
                 /\ IF h = NULL
                    THEN CinLeave(w, NULL)
                    ELSE /\ \E p2 \in ReadPrio(h) :
                              curr_priority_level' = [curr_priority_level EXCEPT ![w] = p2]
                         /\ hint' = [hint EXCEPT ![w] = h]
                         /\ it' = [it EXCEPT ![w] = h]
                         /\ readers' = readers \cup {w}
                         /\ wpc' = [wpc EXCEPT ![w] = "walk"]
                         /\ UNCHANGED client
    /\ visited' = [visited EXCEPT ![w] = <<>>]
    /\ UNCHANGED << live, obj, registryVars, writer, ctlVars, my_last_client, pass,
                    owed, retired, quiet, demand0, my_server, deltas, calls >>

\* Lines 168-180: one iteration of the do-while.
CinWalk(w) ==
    /\ wpc[w] = "walk"
    /\ LET t == it[w]
           adv == AdvanceIt(my_client_list, t, curr_priority_level[w])
       IN  /\ visited' = [visited EXCEPT ![w] = Append(@, t)]
           /\ usedDead' = (usedDead \/ Dangling(t))
           /\ \E ok \in try_join_ok(t) :
                /\ obj' = try_join(t, ok)
                /\ IF adv.curr = -1
                   THEN /\ wpc' = [wpc EXCEPT ![w] = "spin"]
                        /\ UNCHANGED << client, readers, hint, it, curr_priority_level, owed >>
                   ELSE IF ok
                   THEN /\ CinLeave(w, WalkResult(t, adv.it))
                        /\ owed' = [owed EXCEPT ![WalkResult(t, adv.it)] = @ - 1]
                   ELSE IF adv.it = hint[w]
                   THEN CinLeave(w, NULL) /\ UNCHANGED owed
                   ELSE /\ it' = [it EXCEPT ![w] = adv.it]
                        /\ curr_priority_level' = [curr_priority_level EXCEPT ![w] = adv.curr]
                        /\ UNCHANGED << client, readers, hint, wpc, owed >>
    /\ UNCHANGED << live, registryVars, writer, ctlVars, my_last_client, pass,
                    retired, quiet, demand0, my_server, deltas, calls >>

\* ---------------------------------------------------------------- process
\* Lines 193-196: the resource manager activates the worker.
ProcessStart(w) ==
    /\ wpc[w] = "done"
    /\ client' = [client EXCEPT ![w] = my_last_client[w]]
    /\ pass' = [pass EXCEPT ![w] = 0]
    /\ wpc' = [wpc EXCEPT ![w] = "cin"]
    /\ UNCHANGED << live, obj, registryVars, writer, readers, ctlVars, my_last_client,
                    walkVars, usedDead, owed, retired, quiet, demand0, my_server, deltas, calls >>

\* Lines 198-199: the client is remembered and its process entry point is entered.
ProcessJoin(w) ==
    /\ wpc[w] = "got"
    /\ my_last_client' = [my_last_client EXCEPT ![w] = client[w]]
    /\ usedDead' = (usedDead \/ Dangling(client[w]))
    /\ wpc' = [wpc EXCEPT ![w] = "proc"]
    /\ visited' = [visited EXCEPT ![w] = <<>>]
    /\ UNCHANGED << live, obj, registryVars, writer, readers, ctlVars, client, pass,
                    hint, it, curr_priority_level, owed, retired, quiet, demand0, my_server, deltas, calls >>

\* client->process(td) returns: the worker has left the client and dropped its reference.
ProcessLeave(w) ==
    /\ wpc[w] = "proc"
    /\ obj' = IF live[client[w]] THEN [obj EXCEPT ![client[w]].refs = @ - 1] ELSE obj
    /\ wpc' = [wpc EXCEPT ![w] = "cin"]
    /\ UNCHANGED << live, registryVars, writer, readers, ctlVars, my_last_client, client, pass,
                    walkVars, usedDead, owed, retired, quiet, demand0, my_server, deltas, calls >>

\* Lines 205-207 with the loop left after its first pass.
ProcessYieldReturns(w) ==
    /\ wpc[w] = "none"
    /\ pass[w] = 0
    /\ wpc' = [wpc EXCEPT ![w] = "done"]
    /\ visited' = [visited EXCEPT ![w] = <<>>]
    /\ UNCHANGED << live, obj, registryVars, writer, readers, ctlVars, my_last_client, client, pass,
                    hint, it, curr_priority_level, usedDead, owed, retired, quiet, demand0, my_server, deltas, calls >>

\* Lines 205-207: the first pass found no client; yield, then the second pass.
ProcessYield(w) ==
    /\ wpc[w] = "none"
    /\ pass[w] = 0
    /\ pass' = [pass EXCEPT ![w] = 1]
    /\ wpc' = [wpc EXCEPT ![w] = "cin"]
    /\ visited' = [visited EXCEPT ![w] = <<>>]
    /\ UNCHANGED << live, obj, registryVars, writer, readers, ctlVars, my_last_client, client,
                    hint, it, curr_priority_level, usedDead, owed, retired, quiet, demand0, my_server, deltas, calls >>

\* Line 209: the second pass found no client; process returns to the resource manager.
ProcessReturn(w) ==
    /\ wpc[w] = "none"
    /\ pass[w] = 1
    /\ pass' = [pass EXCEPT ![w] = 0]
    /\ wpc' = [wpc EXCEPT ![w] = "done"]
    /\ visited' = [visited EXCEPT ![w] = <<>>]
    /\ UNCHANGED << live, obj, registryVars, writer, readers, ctlVars, my_last_client, client,
                    hint, it, curr_priority_level, usedDead, owed, retired, quiet, demand0, my_server, deltas, calls >>

\* ------------------------------------------------------------------- Spec
\* create_client and register_client, with the clients' addresses drawn from A and
\* the arenas' priority levels, references and demands at construction from P, R, D.
Registrar(A, P, R, D) ==
    \/ \E a \in A, p \in P, r \in R, d \in D : create_client(a, p, r, d)
    \/ \E a \in Addr : RegLock(a)
    \/ RegInsert

\* try_unregister_client after its first line.
Unregistrar ==
    \/ UnregFind
    \/ UnregRefs
    \/ UnregDemand
    \/ UnregDestroy
    \/ UnregReturn

\* try_unregister_client called with any address and priority level and any epoch
\* a client can have been stamped with.
UnregAny ==
    \E a \in Addr, e \in 0..my_clients_aba_epoch, p \in Levels : UnregLock(a, e, p)

\* try_unregister_client called for a registered client, with the epoch of that
\* client or of an earlier client at its address, and the client's priority level.
UnregKnown ==
    \E a \in Addr, e \in 0..MaxClients :
        /\ Linked(a)
        /\ e = obj[a].epoch \/ <<a, e>> \in retired
        /\ UnregLock(a, e, obj[a].prio)

Owners ==
    \/ \E a \in Addr : ReleaseRef(a)
    \/ \E a \in Addr : AdjustDemand(a)

Worker(w) ==
    \/ ProcessStart(w)
    \/ CinEnter(w)
    \/ CinWalk(w)
    \/ ProcessJoin(w)
    \/ ProcessLeave(w)
    \/ ProcessYield(w)
    \/ ProcessReturn(w)

\* The registry's life: the controller and the clients' owners.
Next ==
    \/ Registrar({1, 2}, Levels, 0..1, 0..MaxDemand)
    \/ UnregAny
    \/ Unregistrar
    \/ Owners

Spec == Init /\ [][Next]_vars

\* One worker's loop against a registry that changes under it.
NextW ==
    \/ Registrar({1, 2}, {0, 2}, {0}, 0..MaxDemand)
    \/ UnregKnown
    \/ Unregistrar
    \/ \E a \in Addr : AdjustDemand(a)
    \/ Worker(1)

SpecW == Init /\ [][NextW]_vars

\* Two workers' loops against a registry that grows and demands that rise.
NextJ ==
    \/ Registrar({1, 2}, {0, 2}, {0}, 0..MaxDemand)
    \/ \E a \in Addr : AdjustDemand(a)
    \/ \E w \in Workers : Worker(w)

SpecJ == Init /\ [][NextJ]_vars

\* The registry's life with fixed clients' counters, and the demand forwarded
\* to the resource manager.
NextD ==
    \/ Registrar({1, 2}, {0, 2}, {0}, {0})
    \/ UnregKnown
    \/ Unregistrar
    \/ \E delta \in Deltas : adjust_job_count_estimate(delta)

SpecD == Init /\ [][NextD]_vars

\* One worker's loop against registrations and unregistrations of clients of one
\* priority level, under fair scheduling: a thread inside a call keeps running,
\* and a reader that asks for my_list_mutex gets it, the mutex being free again
\* and again.
NextL ==
    \/ Registrar({1, 2}, {0}, {0}, {1})
    \/ UnregKnown
    \/ Unregistrar
    \/ Worker(1)

SpecL ==
    /\ Init /\ [][NextL]_vars
    /\ WF_vars(RegInsert)
    /\ WF_vars(Unregistrar)
    /\ SF_vars(CinEnter(1))
    /\ WF_vars(CinWalk(1))

\* ------------------------------------------------- direct client_in_need calls
\* The registry is built; from here on only thread 1 acts, calling client_in_need.
Quiesce ==
    /\ upc = "idle" /\ ~quiet
    /\ \A a \in Addr : live[a] => Linked(a)
    /\ quiet' = TRUE
    /\ demand0' = [a \in Addr |-> obj[a].demand]
    /\ UNCHANGED << live, obj, registryVars, writer, readers, ctlVars, workerVars,
                    usedDead, owed, retired, my_server, deltas, calls >>

AllNone == \A k \in 1..Len(calls) : calls[k].prev = NULL
Chained == \A k \in 2..Len(calls) : calls[k].prev = calls[k - 1].res

\* The arguments of the next call: anything for the first; after that none again
\* when every call so far was given none, or the previous result when every call
\* so far was given its predecessor's result.
NextPrev ==
    IF calls = <<>> THEN Ptr
    ELSE (IF AllNone THEN {NULL} ELSE {}) \cup (IF Chained THEN {calls[Len(calls)].res} ELSE {})

\* Thread 1 calls client_in_need(prev).
DirectCall(prev) ==
    /\ quiet
    /\ wpc[1] = "done"
    /\ Len(calls) < MaxCalls
    /\ prev \in NextPrev
    /\ client' = [client EXCEPT ![1] = prev]
    /\ wpc' = [wpc EXCEPT ![1] = "cin"]
    /\ calls' = Append(calls, [prev |-> prev, res |-> NULL, tried |-> <<>>, done |-> FALSE])
    /\ UNCHANGED << live, obj, registryVars, writer, readers, ctlVars, my_last_client, pass,
                    walkVars, usedDead, owed, retired, quiet, demand0, my_server, deltas >>

\* The call has returned to thread 1.
DirectReturn ==
    /\ quiet
    /\ wpc[1] \in {"got", "none"}
    /\ calls' = [calls EXCEPT ![Len(calls)] =
                    [prev |-> @.prev, res |-> client[1], tried |-> visited[1], done |-> TRUE]]
    /\ wpc' = [wpc EXCEPT ![1] = "done"]
    /\ visited' = [visited EXCEPT ![1] = <<>>]
    /\ UNCHANGED << live, obj, registryVars, writer, readers, ctlVars, my_last_client, client,
                    pass, hint, it, curr_priority_level, usedDead, owed, retired, quiet, demand0, my_server, deltas >>

NextSeq ==
    \/ Registrar({1, 2, 3}, Levels, {0}, 0..SeqDemand)
    \/ Quiesce
    \/ \E prev \in Ptr : DirectCall(prev)
    \/ CinEnter(1)
    \/ CinWalk(1)
    \/ DirectReturn

SpecSeq == Init /\ [][NextSeq]_vars

\* ------------------------------------------------------------- properties
Registered == {a \in Addr : Linked(a)}

\* C1. No double-dispatch: however two workers' client_in_need calls interleave,
\* a client is returned no more often than it was given demand (owed never goes
\* below zero), its demand counter never goes below zero, and every unit taken
\* from the counter went to exactly one returned call (owed equals the counter).
NoDoubleDispatch ==
    \A a \in Addr :
        /\ owed[a] >= 0
        /\ obj[a].demand >= 0
        /\ owed[a] = obj[a].demand

\* Worker 1 has been given the last unit of a client's demand while worker 2 is in
\* its walk and stands at that client.
NoDoubleDispatchWitness ==
    \E a \in Addr :
        /\ wpc[1] = "got" /\ client[1] = a
        /\ wpc[2] = "walk" /\ it[2] = a
        /\ {1, 2} \cap readers = {2}
        /\ obj[a].demand = 0

\* C2. ABA safety: a client that lives at an address carries an epoch no destroyed
\* client of that address carried; try_unregister_client called with a destroyed
\* client's address and epoch never gets past the epoch comparison, returns false,
\* and leaves the client registered at that address registered and alive.
ABASafety ==
    /\ \A a \in Addr : live[a] => <<a, obj[a].epoch>> \notin retired
    /\ upc \in {"u_refs", "u_demand", "u_destroy"} => <<uclient, uepoch>> \notin retired
    /\ (upc = "u_ret" /\ ~ures /\ <<uclient, uepoch>> \in retired) =>
          /\ live = [a \in Addr |-> a \in snap.live]
          /\ is_client_alive(snap.lists, uclient) =>
                live[uclient] /\ is_client_alive(my_client_list, uclient)

\* The call was given the epoch of a destroyed client whose address now holds a
\* registered client with no references and no demand, in the bucket named.
ABASafetyWitness ==
    /\ upc = "u_ret" /\ ~ures
    /\ <<uclient, uepoch>> \in retired
    /\ live[uclient] /\ Linked(uclient)
    /\ obj[uclient].prio = upriority
    /\ obj[uclient].refs = 0 /\ obj[uclient].demand = 0

\* C3. Unregister precondition: the step that reads a non-zero references() or a
\* non-zero num_workers_requested() ends the call with false and the registry as
\* it was; and a client that has been removed and awaits destruction has zero
\* references and zero demand, as has one whose references were read as zero.
UnregisterPreconditionState ==
    /\ upc = "u_demand" => obj[uclient].refs = 0
    /\ upc = "u_destroy" => obj[uclient].refs = 0 /\ obj[uclient].demand = 0

UnregisterPreconditionStep ==
    /\ (upc = "u_refs" /\ upc' # "u_refs" /\ obj[uclient].refs > 0) =>
          upc' = "u_ret" /\ ~ures' /\ UNCHANGED << registryVars, live >>
    /\ (upc = "u_demand" /\ upc' # "u_demand" /\ obj[uclient].demand > 0) =>
          upc' = "u_ret" /\ ~ures' /\ UNCHANGED << registryVars, live >>
    /\ (upc' = "u_destroy" /\ upc # "u_destroy") =>
          writer /\ obj[uclient].refs = 0 /\ obj[uclient].demand = 0

UnregisterPrecondition == []UnregisterPreconditionState /\ [][UnregisterPreconditionStep]_vars

\* The call named a registered client's address, epoch and bucket and was refused
\* because of the client's references or demand.
UnregisterPreconditionWitness ==
    /\ upc = "u_ret" /\ ~ures
    /\ Linked(uclient)
    /\ obj[uclient].prio = upriority /\ obj[uclient].epoch = uepoch
    /\ obj[uclient].refs > 0 \/ obj[uclient].demand > 0

\* C4. No use of a destroyed client: no thread has dereferenced an address that
\* holds no object; a worker in its walk holds the read lock and its start client
\* and iterator are registered, live clients; the client a worker was given or is
\* processing is a registered, live client.
NoUseOfDestroyed ==
    /\ ~usedDead
    /\ \A w \in Workers :
        /\ wpc[w] = "walk" =>
              /\ w \in readers
              /\ live[hint[w]] /\ is_client_alive(my_client_list, hint[w])
              /\ live[it[w]] /\ is_client_alive(my_client_list, it[w])
        /\ wpc[w] \in {"got", "proc"} =>
              live[client[w]] /\ is_client_alive(my_client_list, client[w])

\* The worker's remembered client has been destroyed, the worker has called
\* client_in_need with that pointer and walks the registry from the cursor.
NoUseOfDestroyedWitness ==
    /\ wpc[1] = "walk"
    /\ client[1] # NULL /\ client[1] = my_last_client[1]
    /\ ~live[client[1]]

\* C5. is_client_alive tracks registry membership: it is true of exactly the
\* addresses linked in a bucket, false of null and of every address that holds no
\* object; a call naming a registered client's bucket and epoch while the client
\* has no references and no demand returns true, and from the removal on
\* is_client_alive is false of the address.
AliveTracksMembership ==
    /\ \A a \in Addr : is_client_alive(my_client_list, a) <=> a \in Registered
    /\ ~is_client_alive(my_client_list, NULL)
    /\ \A a \in Addr : ~live[a] => ~is_client_alive(my_client_list, a)
    /\ upc = "u_destroy" => ~is_client_alive(my_client_list, uclient)
    /\ upc = "u_ret" =>
          /\ ures => ~is_client_alive(my_client_list, uclient)
          /\ ( /\ is_client_in_list(snap.lists[upriority], uclient)
               /\ snap.zero
               /\ (ures \/ obj[uclient].epoch = uepoch) ) => ures

\* The call has returned true and the address is not alive, another client being registered.
AliveTracksMembershipWitness ==
    /\ upc = "u_ret" /\ ures
    /\ snap.zero
    /\ ~is_client_alive(my_client_list, uclient)
    /\ Registered # {}

\* C6. A failed try_unregister_client changes nothing: when the call returns
\* false the buckets, the cursor, the epoch counter and the set of live clients
\* are what they were when the lock was taken, and the lock is released.
FailedUnregisterFrame ==
    (upc = "u_ret" /\ ~ures) =>
        /\ my_client_list = snap.lists
        /\ my_next_client = snap.next
        /\ my_clients_aba_epoch = snap.epoch
        /\ {a \in Addr : live[a]} = snap.live
        /\ ~writer

\* The call failed on a registry of two clients, after an earlier removal.
FailedUnregisterFrameWitness ==
    /\ upc = "u_ret" /\ ~ures
    /\ Cardinality(Registered) = 2
    /\ my_clients_aba_epoch > 0
    /\ Linked(uclient)

\* C7. Selector result: select_next_client(none) returns the first client of the
\* lowest-index non-empty bucket, or none when every bucket is empty, hence a
\* client of bucket 0 whenever bucket 0 is non-empty; select_next_client(hint) for
\* a hint of level p returns the first client of the lowest-index non-empty
\* bucket among the levels it scans, those below p, and the hint when they are
\* all empty.
SelectorResult ==
    /\ \A h \in Ptr :
         (h = NULL \/ live[h]) =>
            \A p \in ReadPrio(h) :
               LET scanned == IF h = NULL THEN Levels ELSE {i \in Levels : i < p}
                   nonempty == {i \in scanned : my_client_list[i] # <<>>}
                   r == select_next_client(my_client_list, h, p)
               IN  IF nonempty = {} THEN r = h
                   ELSE r = Head(my_client_list[CHOOSE i \in nonempty :
                                                   \A j \in nonempty : i <= j])
    /\ my_client_list[0] # <<>> =>
          select_next_client(my_client_list, NULL, 0) \in Range(my_client_list[0])

\* The cursor, left by select_next_client(cursor) in the last insert_client, is a
\* client that is not the first of its bucket, every bucket above being empty.
SelectorResultWitness ==
    /\ my_next_client # NULL /\ Linked(my_next_client)
    /\ Head(my_client_list[obj[my_next_client].prio]) # my_next_client
    /\ \A i \in Levels : i < obj[my_next_client].prio => my_client_list[i] = <<>>
    /\ select_next_client(my_client_list, my_next_client, obj[my_next_client].prio)
          = my_next_client

\* The direct calls that have returned.
DoneCalls == {k \in 1..Len(calls) : calls[k].done}

SingleBucket ==
    \E i \in Levels :
        /\ my_client_list[i] # <<>>
        /\ \A j \in Levels \ {i} : my_client_list[j] = <<>>

\* Every try_join made by the calls so far succeeded.
AllJoinsSucceeded == \A k \in DoneCalls : calls[k].tried = <<calls[k].res>>

RoundRobinCase == quiet /\ SingleBucket /\ AllJoinsSucceeded

\* C8 as claimed. Round-robin within a bucket: with the clients of one bucket all
\* accepting, successive calls (each given none, or each given the previous
\* result) return every registered client before returning one a second time.
RoundRobinCycles ==
    RoundRobinCase =>
        \A i, j \in DoneCalls :
            (i < j /\ calls[i].res = calls[j].res) =>
                {calls[k].res : k \in i..(j - 1)} = Registered

\* C8 as amended. With the clients of one bucket all accepting, the calls do not
\* rotate: a call given a registered client returns that client, and a call given
\* none or an unregistered pointer returns the cursor.
NoRotation ==
    RoundRobinCase =>
        \A k \in DoneCalls :
            calls[k].res = IF is_client_alive(my_client_list, calls[k].prev)
                           THEN calls[k].prev
                           ELSE my_next_client

\* Two clients in one bucket, and two successive calls returned the same one.
NoRotationWitness ==
    /\ RoundRobinCase
    /\ Cardinality(Registered) >= 2
    /\ Len(calls) >= 2 /\ calls[2].done
    /\ calls[1].res = calls[2].res

\* How often the calls returned the client at a.
Count(a) == Cardinality({k \in DoneCalls : calls[k].res = a})

ScenarioABC(a, b, c) ==
    /\ Registered = {a, b, c} /\ a # b /\ b # c /\ a # c
    /\ obj[a].prio = 0 /\ obj[b].prio = 1 /\ obj[c].prio = 2
    /\ demand0[a] = 2 /\ demand0[b] = 1 /\ demand0[c] = 0

\* C9. Demand exhaustion on a quiescent registry: repeated client_in_need(none)
\* calls return registered clients only, each as often as its demand allowed; a
\* call reports none only when every registered client has been returned exactly
\* as often as its initial demand, and the calls after it report none; for A
\* (level 0, demand 2), B (level 1, demand 1), C (level 2, demand 0) the results
\* are A, A, B, none.
DemandExhaustion ==
    (quiet /\ AllNone /\ wpc[1] = "done") =>
        /\ \A a \in Registered :
              /\ obj[a].demand >= 0
              /\ Count(a) + obj[a].demand = demand0[a]
        /\ \A k \in DoneCalls :
              /\ calls[k].res # NULL => calls[k].res \in Registered
              /\ calls[k].res = NULL =>
                    /\ \A a \in Registered : Count(a) = demand0[a]
                    /\ \A j \in DoneCalls : j > k => calls[j].res = NULL
        /\ \A a, b, c \in Addr :
              ScenarioABC(a, b, c) =>
                 \A k \in DoneCalls :
                    calls[k].res = IF k <= 2 THEN a ELSE IF k = 3 THEN b ELSE NULL

\* The scenario has been run: four calls, A, A, B, none.
DemandExhaustionWitness ==
    /\ quiet /\ AllNone /\ wpc[1] = "done"
    /\ Len(calls) = 4
    /\ \E a, b, c \in Addr :
          /\ ScenarioABC(a, b, c)
          /\ calls[1].res = a /\ calls[2].res = a /\ calls[3].res = b /\ calls[4].res = NULL

\* The last direct call has returned a client.
LastReturned == quiet /\ wpc[1] = "done" /\ calls # <<>> /\ calls[Len(calls)].res # NULL

\* C10 as claimed. Priority-first service: a call returns a client of bucket L
\* only if no registered client of a bucket above L had pending demand.
PriorityFirst ==
    LastReturned =>
        \A a \in Registered :
            obj[a].prio < obj[calls[Len(calls)].res].prio => obj[a].demand = 0

\* C10 as amended. The walk starts in the highest-priority non-empty bucket, and
\* a client of a bucket above the returned client's that had pending demand lies
\* in the start client's bucket, in front of the start client.
PriorityBiased ==
    LastReturned =>
        LET res == calls[Len(calls)].res
            start == Head(calls[Len(calls)].tried)
        IN  /\ \A i \in Levels : i < obj[start].prio => my_client_list[i] = <<>>
            /\ \A a \in Registered :
                  (obj[a].prio < obj[res].prio /\ obj[a].demand > 0) =>
                      /\ obj[a].prio = obj[start].prio
                      /\ IndexOf(my_client_list[obj[a].prio], a)
                            < IndexOf(my_client_list[obj[start].prio], start)

\* A call returned a client although a client of a higher-priority bucket had demand.
PriorityBiasedWitness ==
    /\ LastReturned
    /\ \E a \in Registered :
          obj[a].prio < obj[calls[Len(calls)].res].prio /\ obj[a].demand > 0

\* The bucket a registered client is linked in.
LevelOf(lists, a) == CHOOSE i \in Levels : a \in Range(lists[i])

\* The order of one full cycle from start: start to the end of its bucket, the two
\* following buckets cyclically, the start bucket from its front up to start.
WalkOrder(lists, start) ==
    LET l == LevelOf(lists, start)
        s == lists[l]
        k == IndexOf(s, start)
    IN  SubSeq(s, k, Len(s))
           \o lists[(l + 1) % num_priority_levels]
           \o lists[(l + 2) % num_priority_levels]
           \o SubSeq(s, 1, k - 1)

IsPrefix(p, s) == Len(p) <= Len(s) /\ SubSeq(s, 1, Len(p)) = p

\* C11. Full-coverage scan: on a non-empty registry a client_in_need call makes
\* its try_join calls in the order of one cycle from the start client (start to
\* the end of its bucket, the following buckets cyclically, the start bucket from
\* its front up to the start client), on each client at most once; it returns the
\* client of the last try_join, every earlier one having refused, and it reports
\* none only after every registered client has refused.
FullCoverageScan ==
    \A k \in DoneCalls :
        LET t == calls[k].tried
            res == calls[k].res
        IN  IF Registered = {} THEN t = <<>> /\ res = NULL
            ELSE /\ t # <<>>
                 /\ Head(t) \in Registered
                 /\ IsPrefix(t, WalkOrder(my_client_list, Head(t)))
                 /\ \A i, j \in 1..Len(t) : t[i] = t[j] => i = j
                 /\ \A i \in 1..(Len(t) - 1) : obj[t[i]].demand = 0
                 /\ res # NULL => res = t[Len(t)] /\ obj[res].demand < demand0[res]
                 /\ res = NULL => /\ Range(t) = Registered
                                  /\ \A a \in Registered : obj[a].demand = 0

\* A call that started behind the front of its bucket went through a lower
\* bucket and returned the client in front of the start client, reached last.
FullCoverageScanWitness ==
    \E k \in DoneCalls :
        LET t == calls[k].tried
        IN  /\ Len(t) = 3
            /\ calls[k].res = t[3]
            /\ obj[t[2]].prio > obj[t[1]].prio
            /\ obj[t[3]].prio = obj[t[1]].prio

\* What a step of worker w in process may do: pass counts the passes ended.
WorkerLoopStep(w) ==
    /\ (wpc[w] = "done" /\ wpc'[w] # "done") =>
          wpc'[w] = "cin" /\ pass[w] = 0 /\ pass'[w] = 0 /\ client'[w] = my_last_client[w]
    /\ (wpc[w] = "got" /\ wpc'[w] # "got") =>
          wpc'[w] = "proc" /\ my_last_client'[w] = client[w] /\ pass'[w] = pass[w]
    /\ (wpc[w] = "proc" /\ wpc'[w] # "proc") =>
          wpc'[w] = "cin" /\ client'[w] = client[w] /\ pass'[w] = pass[w]
    /\ (wpc[w] = "none" /\ wpc'[w] # "none") =>
          \/ pass[w] = 0 /\ pass'[w] = 1 /\ wpc'[w] = "cin" /\ client'[w] = NULL
          \/ pass[w] = 1 /\ pass'[w] = 0 /\ wpc'[w] = "done"
    /\ wpc'[w] = "proc" => wpc[w] \in {"got", "proc"}
    /\ wpc'[w] = "done" => wpc[w] \in {"none", "done"}
    /\ pass'[w] # pass[w] => wpc[w] = "none"
    /\ my_last_client'[w] # my_last_client[w] => wpc[w] = "got"

\* C12. Worker loop shape: an activation of process makes two passes; in a pass
\* it calls client_in_need again and again, each returned client being recorded
\* as my_last_client before its process entry point runs, until the call reports
\* none; the one yield comes after the first pass's none and before the second
\* pass's first call; process returns only after the second pass's none.
WorkerLoopShape ==
    /\ [](\A w \in Workers : pass[w] \in {0, 1} /\ (wpc[w] = "done" => pass[w] = 0))
    /\ [][\A w \in Workers : WorkerLoopStep(w)]_vars

\* The second pass of an activation that processed a client has just found none.
WorkerLoopShapeWitness ==
    /\ wpc[1] = "none" /\ pass[1] = 1
    /\ my_last_client[1] # NULL
    /\ client[1] = NULL

\* C13 as claimed. Epoch uniqueness: no two client instances made by
\* create_client, alive or destroyed, carry the same aba_epoch.
EpochUnique ==
    /\ \A a, b \in Addr : (live[a] /\ live[b] /\ a # b) => obj[a].epoch # obj[b].epoch
    /\ \A a \in Addr : live[a] => \A r \in retired : r[2] # obj[a].epoch
    /\ \A r, s \in retired : r # s => r[2] # s[2]

EpochCounterState ==
    /\ \A a \in Addr : live[a] =>
          /\ obj[a].epoch <= my_clients_aba_epoch
          /\ \A r \in retired : r[1] = a => r[2] < obj[a].epoch
    /\ \A r \in retired : r[2] < my_clients_aba_epoch
    /\ \A r, s \in retired : (r # s /\ r[1] = s[1]) => r[2] # s[2]
    /\ my_clients_aba_epoch = Cardinality(retired) + (IF upc = "u_destroy" THEN 1 ELSE 0)

EpochCounterStep ==
    /\ my_clients_aba_epoch' # my_clients_aba_epoch =>
          /\ my_clients_aba_epoch' = my_clients_aba_epoch + 1
          /\ upc = "u_demand" /\ upc' = "u_destroy"
    /\ (upc' = "u_destroy" /\ upc # "u_destroy") =>
          my_clients_aba_epoch' = my_clients_aba_epoch + 1
    /\ \A a \in Addr : (~live[a] /\ live'[a]) => obj'[a].epoch = my_clients_aba_epoch
    /\ \A a \in Addr : (live[a] /\ live'[a]) => obj'[a].epoch = obj[a].epoch

\* C13 as amended. The epoch counter never decreases; it is incremented by one on
\* every successful try_unregister_client and by nothing else, so it counts the
\* clients removed; a client carries the counter's value at its creation, which
\* is larger than the epoch of every client destroyed before at its address and
\* may equal the epoch of clients at other addresses.
EpochCounter == []EpochCounterState /\ [][EpochCounterStep]_vars

\* After a removal, two clients alive together carry the same epoch.
EpochCounterWitness ==
    /\ my_clients_aba_epoch > 0
    /\ \E a, b \in Addr :
          /\ a # b /\ live[a] /\ live[b]
          /\ obj[a].epoch = obj[b].epoch
          /\ obj[a].epoch = my_clients_aba_epoch

\* How often the client at a is linked in bucket i.
LinkCount(a, i) ==
    Cardinality({k \in 1..Len(my_client_list[i]) : my_client_list[i][k] = a})

\* C14. Bucket membership: every address is linked at most once over the three
\* buckets; a linked address holds a live client whose priority_level is the
\* index of its bucket, below 3, and stays linked in that bucket, with that
\* priority level, until remove_client unlinks it.
BucketMembership ==
    /\ [](\A a \in Addr :
            /\ Cardinality({i \in Levels : a \in Range(my_client_list[i])}) <= 1
            /\ \A i \in Levels :
                  /\ LinkCount(a, i) <= 1
                  /\ a \in Range(my_client_list[i]) =>
                        /\ live[a]
                        /\ obj[a].prio = i
                        /\ obj[a].prio < num_priority_levels)
    /\ [][\A a \in Addr : \A i \in Levels :
            a \in Range(my_client_list[i]) =>
               \/ a \in Range(my_client_list'[i]) /\ obj'[a].prio = i
               \/ /\ upc = "u_demand" /\ uclient = a
                  /\ ~Linked(a)']_vars

\* Two clients are linked in different buckets, one of them at the lowest
\* priority level, after a client has been removed.
BucketMembershipWitness ==
    /\ upc = "idle"
    /\ my_clients_aba_epoch > 0
    /\ my_client_list[2] # <<>>
    /\ my_client_list[0] # <<>> \/ my_client_list[1] # <<>>

\* The non-zero deltas of a sequence of deltas, in their order.
RECURSIVE NonZero(_)
NonZero(ds) ==
    IF ds = <<>> THEN <<>>
    ELSE IF Head(ds) # 0 THEN <<Head(ds)>> \o NonZero(Tail(ds))
    ELSE NonZero(Tail(ds))

\* A call of adjust_job_count_estimate: the resource manager gets the delta, once,
\* iff it is not zero, and nothing else of the dispatcher changes.
DemandForwardingStep ==
    /\ deltas' # deltas =>
          /\ Len(deltas') = Len(deltas) + 1
          /\ LET delta == deltas'[Len(deltas')]
             IN  /\ delta = 0 => my_server' = my_server
                 /\ delta # 0 => my_server' = Append(my_server, delta)
          /\ UNCHANGED << live, obj, registryVars, writer, readers, ctlVars, workerVars >>
    /\ my_server' # my_server => deltas' # deltas

\* C15. Demand forwarding: adjust_job_count_estimate(0) makes no call to the
\* resource manager and changes no dispatcher state; with a non-zero delta it
\* makes exactly one call to the resource manager's adjust_job_count_estimate,
\* with that delta; either way the buckets, the cursor and the epoch counter are
\* unchanged.
DemandForwarding ==
    /\ [](my_server = NonZero(deltas))
    /\ [][DemandForwardingStep]_vars

\* Three calls on a non-empty registry, the second with delta 0: two were forwarded.
DemandForwardingWitness ==
    /\ Len(deltas) = 3
    /\ deltas[1] # 0 /\ deltas[2] = 0 /\ deltas[3] # 0
    /\ my_server = <<deltas[1], deltas[3]>>
    /\ Registered # {}

\* The step of register_client that calls insert_client, and the one step that
\* unlinks a client.
FrontInsertionStep ==
    /\ (upc = "r_insert" /\ upc' # "r_insert") =>
          LET p == obj[uclient].prio
          IN  /\ my_client_list'[p] = <<uclient>> \o my_client_list[p]
              /\ Head(my_client_list'[p]) = uclient
              /\ \A i \in Levels \ {p} : my_client_list'[i] = my_client_list[i]
              /\ my_clients_aba_epoch' = my_clients_aba_epoch
    /\ (upc = "u_demand" /\ upc' = "u_destroy") =>
          \A i \in Levels : my_client_list'[i] = SelectSeq(my_client_list[i], LAMBDA b : b # uclient)
    /\ my_client_list' # my_client_list =>
          upc = "r_insert" \/ (upc = "u_demand" /\ upc' = "u_destroy")

\* C16. Front insertion: register_client(c) makes c the first element of the
\* bucket of c's priority level, with the clients already there behind it in
\* their order, and leaves the other two buckets and the epoch counter as they
\* were; as the only other change of a bucket, an unregistration, takes one
\* client out and keeps the order of the rest, a bucket lists its clients from
\* the most recently to the least recently registered.
FrontInsertion == [][FrontInsertionStep]_vars

\* A client has just been registered in front of another in its bucket, a third
\* having been removed before.
FrontInsertionWitness ==
    /\ upc = "idle"
    /\ my_clients_aba_epoch > 0
    /\ \E i \in Levels : Len(my_client_list[i]) = 2

\* The highest-priority level whose bucket is not empty.
TopLevel == CHOOSE i \in Levels :
               my_client_list[i] # <<>> /\ \A j \in Levels : j < i => my_client_list[j] = <<>>

\* C17. Round-robin cursor invariant: whenever the write lock is not held,
\* my_next_client is none exactly when the three buckets are empty, and otherwise
\* it points to a live client linked in the highest-priority non-empty bucket;
\* it never points to a removed or destroyed client.
CursorInvariant ==
    ~writer =>
        /\ my_next_client = NULL <=> Registered = {}
        /\ my_next_client # NULL =>
              /\ live[my_next_client]
              /\ my_next_client \in Range(my_client_list[TopLevel])
        /\ \A r \in retired : my_next_client = r[1] => live[r[1]]

\* The client the cursor pointed to has been removed, and the cursor has moved
\* to a client of a lower priority level.
CursorInvariantWitness ==
    /\ upc = "u_ret" /\ ures
    /\ snap.next = uclient
    /\ my_next_client # NULL
    /\ obj[my_next_client].prio > upriority

\* C18. Priority-biased start: whatever previous client a worker passes (none, a
\* pointer to a destroyed client, a registered client of any level), the walk of
\* client_in_need starts, and makes its first try_join, at a client of the
\* highest-priority non-empty bucket; a registered previous client is the start
\* exactly when no bucket of higher priority than its own is non-empty.
PriorityBiasedStart ==
    \A w \in Workers :
        wpc[w] = "walk" =>
            /\ hint[w] \in Range(my_client_list[TopLevel])
            /\ IF visited[w] = <<>> THEN it[w] = hint[w] ELSE Head(visited[w]) = hint[w]
            /\ is_client_alive(my_client_list, client[w]) =>
                  (hint[w] = client[w] <=> obj[client[w]].prio = TopLevel)

\* The worker passed a registered client of the lowest level while a bucket of
\* higher priority was non-empty: the walk starts at another client.
PriorityBiasedStartWitness ==
    /\ wpc[1] = "walk"
    /\ Linked(client[1])
    /\ obj[client[1]].prio = 2
    /\ hint[1] # client[1]
    /\ visited[1] = <<>>

\* C19. Scan precondition and termination: the walk of client_in_need is only
\* ever under way with a start client that is linked in a bucket, under the read
\* lock; the skip-empty-buckets loop always stops at a non-empty bucket (no
\* worker spins in it); the iterator stays on linked clients; and the try_join
\* calls made, the pending one included, never outnumber the registered clients,
\* so the call ends after at most that many.
ScanTerminates ==
    \A w \in Workers :
        /\ wpc[w] # "spin"
        /\ wpc[w] = "walk" =>
              /\ w \in readers
              /\ Linked(hint[w])
              /\ Linked(it[w])
              /\ it[w] \in Range(my_client_list[curr_priority_level[w]])
              /\ Len(visited[w]) + 1 <= Cardinality(Registered)
              /\ it[w] \notin Range(visited[w])

\* is about to ask, while the worker's remembered client is no longer registered.
\* The walk has been refused by every registered client but the last, which it
\* is about to ask; the worker has processed a client and a client has been removed before.
\* is about to ask, while the worker's remembered client is no longer registered.
ScanTerminatesWitness ==
    /\ wpc[1] = "walk"
    /\ Cardinality(Registered) = 2
    /\ Len(visited[1]) = 1
    /\ my_last_client[1] # NULL
    /\ my_clients_aba_epoch > 0

\* Who holds my_list_mutex, by the threads' positions.
LockState ==
    /\ ~(writer /\ readers # {})
    /\ writer <=> upc \in {"r_insert", "u_find", "u_refs", "u_demand"}
    /\ \A w \in Workers : w \in readers <=> wpc[w] = "walk"

LockStep ==
    /\ registryVars' # registryVars =>
          writer /\ readers = {} /\ upc \in {"r_insert", "u_demand"}
    /\ (writer /\ ~writer') => upc' \in {"idle", "u_ret", "u_destroy"}
    /\ (upc \in {"u_find", "u_refs", "u_demand"} /\ upc' \in {"u_ret", "u_destroy"}) =>
          writer /\ ~writer'
    /\ \A a \in Addr : (live[a] /\ ~live'[a]) => (upc = "u_destroy" /\ ~writer)
    /\ \A w \in Workers : (wpc[w] = "walk" /\ wpc'[w] = "walk") => UNCHANGED registryVars

====
